---- MODULE Spec2Model ----
(***************************************************************************)
(* ethblockcomparer: a health probe that compares the latest block height  *)
(* reported by two Ethereum JSON-RPC nodes.                                *)
(*                                                                         *)
(* Two revisions of the program are modelled, each with its own            *)
(* specification over the same variables:                                  *)
(*   Spec     src/main.go            (cli flags, threshold is a uint,      *)
(*                                    502 through c.AbortWithError)        *)
(*   SpecStr  src/unnamed/part_003   (threshold is the text os.Args[3],    *)
(*                                    502 through c.JSON with an "error")  *)
(* Definitions of the second revision carry the suffix Str.                *)
(*                                                                         *)
(* Text is a sequence of one-character strings.                            *)
(***************************************************************************)
EXTENDS Integers, Sequences, FiniteSets, TLC

VARIABLES
    pc,          \* position of the process: "start", "serving", "exited", "panicked"
    args,        \* positional command line arguments (sequence of texts)
    flagT,       \* main.go: value of the --threshold flag (uint)
    insecure,    \* --insecure flag / INSECURE_SKIP_VERIFY
    tlsSkip,     \* http.DefaultTransport TLSClientConfig.InsecureSkipVerify
    hc,          \* the *heightsController held by the router, or Nil
    startErr,    \* error returned by run / passed to checkError (list; <<>> is nil)
    dialLog,     \* arguments of the rpc.Dial calls made so far, in order
    runCalled,   \* whether r.Run() of the gin engine was called
    ipc,         \* position inside Index: "idle", "call1", "call2", "respond", "done"
    latest1,     \* Index local: block decoded from client 1
    latest2,     \* Index local: block decoded from client 2
    err1,        \* Index local: error of client1.Call
    err2,        \* Index local: error of client2.Call
    reply1,      \* what node 1 answered to the Call of the current request
    reply2,      \* what node 2 answered to the Call of the current request
    resp,        \* what the current request wrote: status, body, context errors
    served,      \* number of requests answered (capped at MaxServed)
    calls1,      \* Call invocations on client 1 by the current request
    calls2       \* Call invocations on client 2 by the current request

vars == <<pc, args, flagT, insecure, tlsSkip, hc, startErr, dialLog, runCalled,
          ipc, latest1, latest2, err1, err2, reply1, reply2, resp, served,
          calls1, calls2>>

(***************************************************************************)
(* Bounds                                                                  *)
(***************************************************************************)
MaxHeight == 11      \* block heights 0..MaxHeight
MaxThreshold == 3    \* main.go: threshold flag values 0..MaxThreshold
MaxArgs == 3         \* number of positional arguments tried, 1..MaxArgs
MaxServed == 2       \* requests served in one run
MaxTextLen == 2      \* part_003: threshold texts of up to MaxTextLen characters

(***************************************************************************)
(* Text helpers                                                            *)
(***************************************************************************)
Nil == [nil |-> TRUE]

\* strings.HasPrefix
HasPrefix(s, prefix) ==
    /\ Len(s) >= Len(prefix)
    /\ SubSeq(s, 1, Len(prefix)) = prefix

DecDigits == <<"0", "1", "2", "3", "4", "5", "6", "7", "8", "9">>
HexDigits == DecDigits \o <<"a", "b", "c", "d", "e", "f">>

\* Value of digit character c in the digit table, -1 when it is no digit.
DigitVal(table, c) ==
    IF \E i \in 1..Len(table) : table[i] = c
    THEN (CHOOSE i \in 1..Len(table) : table[i] = c) - 1
    ELSE -1

RECURSIVE Digits(_, _, _)
\* Digits of n >= 0 in the given base, most significant first.
Digits(table, base, n) ==
    IF n < base THEN <<table[n + 1]>>
    ELSE Digits(table, base, n \div base) \o <<table[(n % base) + 1]>>

\* big.Int.String / fmt.Sprint of an integer: decimal text, "-" for negatives.
String(n) ==
    IF n < 0 THEN <<"-">> \o Digits(DecDigits, 10, -n)
    ELSE Digits(DecDigits, 10, n)

\* hexutil.Big.MarshalText (hexutil.EncodeBig): "0x" and the hex digits.
EncodeBig(n) ==
    IF n < 0 THEN <<"-", "0", "x">> \o Digits(HexDigits, 16, -n)
    ELSE <<"0", "x">> \o Digits(HexDigits, 16, n)

RECURSIVE ValueOf(_, _, _)
\* Value of a text all of whose characters are digits of the table.
ValueOf(table, base, s) ==
    IF Len(s) = 0 THEN 0
    ELSE ValueOf(table, base, SubSeq(s, 1, Len(s) - 1)) * base
           + DigitVal(table, s[Len(s)])

AllDigits(table, s) == \A i \in 1..Len(s) : DigitVal(table, s[i]) >= 0

\* hexutil.Big.UnmarshalJSON: the text must be 0x followed by at least one
\* hex digit and no leading zero; anything else is a decode error.
DecodeBigOk(s) ==
    /\ HasPrefix(s, <<"0", "x">>)
    /\ Len(s) >= 3
    /\ AllDigits(HexDigits, SubSeq(s, 3, Len(s)))
    /\ (Len(s) > 3 => s[3] # "0")

DecodeBig(s) == ValueOf(HexDigits, 16, SubSeq(s, 3, Len(s)))

(***************************************************************************)
(* Endpoint addresses and threshold texts tried                            *)
(***************************************************************************)
AddrEmpty == <<>>
AddrGibberish == <<"1", "2", "g", "i", "b", "b", "e", "r", "i", "s", "h">>
AddrLocalhost == <<"l", "o", "c", "a", "l", "h", "o", "s", "t", ":", "1", "2", "3", "4">>
AddrHTTP == <<"h", "t", "t", "p", ":", "/", "/", "1", "0", ".", "1", "8", "0", ".", "0", ".", "2">>
AddrHTTPS == <<"h", "t", "t", "p", "s", ":", "/", "/", "b", ".", "i", "o">>
AddrHTTPLocalhost == <<"h", "t", "t", "p", ":", "/", "/", "l", "o", "c", "a", "l", "h", "o", "s", "t", ":", "1", "2", "3", "4">>
AddrLocal == <<"l", "o", "c", "a", "l">>
AddrBareLocalhost == <<"l", "o", "c", "a", "l", "h", "o", "s", "t">>

Addrs == {AddrEmpty, AddrGibberish, AddrLocalhost, AddrHTTP, AddrHTTPS,
          AddrHTTPLocalhost, AddrLocal, AddrBareLocalhost}

Letters == {"a", "b", "c", "d", "e", "f", "g", "h", "i", "j", "k", "l", "m",
            "n", "o", "p", "q", "r", "s", "t", "u", "v", "w", "x", "y", "z"}
SchemeExtra == {"0", "1", "2", "3", "4", "5", "6", "7", "8", "9", "+", "-", "."}

(***************************************************************************)
(* go.uber.org/multierr.  An error value is the list of the leaf errors it *)
(* holds: <<>> is nil, a one-element list a plain error.                   *)
(***************************************************************************)
NoError == <<>>

NewError(op, arg, msg) == <<[op |-> op, arg |-> arg, msg |-> msg]>>

RECURSIVE Flatten(_)
Flatten(errs) ==
    IF Len(errs) = 0 THEN <<>> ELSE Head(errs) \o Flatten(Tail(errs))

\* Faulty variant of Combine: only the first argument is looked at.
CombineFirstOnly(errs) == Head(errs)

\* multierr.Combine(errors...): nil when all are nil, else every non-nil
\* error, in argument order.
Combine(errs) == Flatten(errs)

RECURSIVE JoinMsgs(_)
JoinMsgs(err) ==
    IF Len(err) = 1 THEN <<err[1].msg>>
    ELSE <<err[1].msg, "; ">> \o JoinMsgs(Tail(err))

\* err.Error() of a non-nil error: the message, or for a multierr the
\* messages joined by "; ".
ErrorText(err) == JoinMsgs(err)

(***************************************************************************)
(* rpc.Dial of go-ethereum, as far as the program depends on it            *)
(***************************************************************************)
RECURSIVE getscheme(_, _)
\* net/url getscheme: the text before the first ':' when it is a letter
\* followed by letters, digits, '+', '-' or '.', else no scheme.
getscheme(rawurl, i) ==
    IF i > Len(rawurl) THEN <<>>
    ELSE IF rawurl[i] \in Letters THEN getscheme(rawurl, i + 1)
    ELSE IF rawurl[i] \in SchemeExtra
         THEN IF i = 1 THEN <<>> ELSE getscheme(rawurl, i + 1)
    ELSE IF rawurl[i] = ":" /\ i > 1 THEN SubSeq(rawurl, 1, i - 1)
    ELSE <<>>

\* rpc.Dial(rawurl): http and https give a client without touching the
\* network; no scheme means an IPC socket path, which does not exist for the
\* addresses tried; any other scheme has no known transport.
rpcDial(rawurl) ==
    LET scheme == getscheme(rawurl, 1) IN
    IF scheme \in {<<"h", "t", "t", "p">>, <<"h", "t", "t", "p", "s">>}
    THEN [client |-> [target |-> rawurl], err |-> NoError]
    ELSE IF scheme = <<>>
    THEN [client |-> Nil, err |-> NewError("rpc.Dial", rawurl, "dial unix: connect failed")]
    ELSE [client |-> Nil, err |-> NewError("rpc.Dial", rawurl, "no known transport for URL scheme")]

\* strings.Contains
ContainsText(s, sub) ==
    \E i \in 1..(Len(s) - Len(sub) + 1) : SubSeq(s, i, i + Len(sub) - 1) = sub

\* Faulty variant of normalizeLocalhost: localhost anywhere in the address
\* triggers the rewrite.
normalizeLocalhostContains(endpoint) ==
    IF ContainsText(endpoint, <<"l", "o", "c", "a", "l", "h", "o", "s", "t">>)
    THEN <<"h", "t", "t", "p", ":", "/", "/">> \o endpoint
    ELSE endpoint

normalizeLocalhost(endpoint) ==
    IF HasPrefix(endpoint, <<"l", "o", "c", "a", "l", "h", "o", "s", "t">>)
    THEN <<"h", "t", "t", "p", ":", "/", "/">> \o endpoint
    ELSE endpoint

\* clientImpl.Endpoint
Endpoint(c) == c.endpoint

(***************************************************************************)
(* src/main.go: construction and startup                                   *)
(***************************************************************************)
\* Faulty variant of newHeightsController: the client keeps the address it dialed.
newHeightsControllerDialed(endpoint1, endpoint2, threshold) ==
    LET d1 == rpcDial(normalizeLocalhost(endpoint1))
        d2 == rpcDial(normalizeLocalhost(endpoint2))
        merr == Combine(<<d1.err, d2.err>>)
    IN  [hc |-> IF merr # NoError THEN Nil
                ELSE [threshold |-> threshold,
                      client1 |-> [Client |-> d1.client, endpoint |-> d1.client.target],
                      client2 |-> [Client |-> d2.client, endpoint |-> d2.client.target]],
         err |-> merr,
         dials |-> <<normalizeLocalhost(endpoint1), normalizeLocalhost(endpoint2)>>]

newHeightsController(endpoint1, endpoint2, threshold) ==
    LET d1 == rpcDial(normalizeLocalhost(endpoint1))
        d2 == rpcDial(normalizeLocalhost(endpoint2))
        merr == Combine(<<d1.err, d2.err>>)
    IN  [hc |-> IF merr # NoError THEN Nil
                ELSE [threshold |-> threshold,
                      client1 |-> [Client |-> d1.client, endpoint |-> endpoint1],
                      client2 |-> [Client |-> d2.client, endpoint |-> endpoint2]],
         err |-> merr,
         dials |-> <<normalizeLocalhost(endpoint1), normalizeLocalhost(endpoint2)>>]

\* createRouter: the engine with GET /heights bound to hc.Index, or nil and
\* the construction error.
createRouter(p1, p2, threshold) ==
    LET c == newHeightsController(p1, p2, threshold) IN
    IF c.err # NoError
    THEN [router |-> Nil, err |-> c.err, dials |-> c.dials]
    ELSE [router |-> [heights |-> c.hc], err |-> NoError, dials |-> c.dials]

Idle ==
    /\ ipc = "idle"
    /\ latest1 = [Number |-> 0] /\ latest2 = [Number |-> 0]
    /\ err1 = NoError /\ err2 = NoError
    /\ reply1 = Nil /\ reply2 = Nil
    /\ resp = Nil
    /\ served = 0
    /\ calls1 = 0 /\ calls2 = 0

Init ==
    /\ pc = "start"
    /\ \E n \in 1..MaxArgs : args \in [1..n -> Addrs]
    /\ flagT \in 0..MaxThreshold
    /\ insecure \in BOOLEAN
    /\ tlsSkip = FALSE
    /\ hc = Nil
    /\ startErr = NoError
    /\ dialLog = <<>>
    /\ runCalled = FALSE
    /\ Idle

\* Faulty variant of run: r.Run() is called before err is looked at (a nil
\* engine panics there).
runBeforeCheck ==
    /\ pc = "start"
    /\ tlsSkip' = (insecure \/ tlsSkip)
    /\ IF Len(args) # 2
       THEN /\ pc' = "exited"
            /\ startErr' = NewError("run", <<>>, "must pass the correct number of command line arguments")
            /\ UNCHANGED <<hc, dialLog, runCalled>>
       ELSE LET r == createRouter(args[1], args[2], flagT) IN
            /\ dialLog' = dialLog \o r.dials
            /\ runCalled' = TRUE
            /\ IF r.err # NoError
               THEN /\ pc' = "panicked"
                    /\ startErr' = r.err
                    /\ UNCHANGED hc
               ELSE /\ hc' = r.router.heights
                    /\ pc' = "serving" /\ startErr' = NoError
    /\ UNCHANGED <<args, flagT, insecure, ipc, latest1, latest2, err1, err2,
                   reply1, reply2, resp, served, calls1, calls2>>

\* run(c *cli.Context): the cli action.  r.Run() blocks while the engine
\* serves, or returns the listen error at once.
run ==
    /\ pc = "start"
    /\ tlsSkip' = (insecure \/ tlsSkip)
    /\ IF Len(args) # 2
       THEN /\ pc' = "exited"
            /\ startErr' = NewError("run", <<>>, "must pass the correct number of command line arguments")
            /\ UNCHANGED <<hc, dialLog, runCalled>>
       ELSE LET r == createRouter(args[1], args[2], flagT) IN
            /\ dialLog' = dialLog \o r.dials
            /\ IF r.err # NoError
               THEN /\ pc' = "exited"
                    /\ startErr' = r.err
                    /\ UNCHANGED <<hc, runCalled>>
               ELSE /\ hc' = r.router.heights
                    /\ runCalled' = TRUE
                    /\ \E listenOk \in BOOLEAN :
                         IF listenOk
                         THEN pc' = "serving" /\ startErr' = NoError
                         ELSE /\ pc' = "exited"
                              /\ startErr' = NewError("r.Run", <<>>, "listen failed")
    /\ UNCHANGED <<args, flagT, insecure, ipc, latest1, latest2, err1, err2,
                   reply1, reply2, resp, served, calls1, calls2>>

(***************************************************************************)
(* The two nodes: what a Call can come back with                           *)
(***************************************************************************)
CallErrors == {"timeout", "connection refused"}

NumberTexts ==
    {EncodeBig(h) : h \in 0..MaxHeight}
        \cup {<<"0", "x">>, <<"7">>, <<"0", "x", "0", "1">>}

\* A transport error, a result without a number (the zero block stays), or
\* a result whose number field is the given text.
Replies ==
    {[kind |-> "error", text |-> <<>>, msg |-> m] : m \in CallErrors}
        \cup {[kind |-> "null", text |-> <<>>, msg |-> ""]}
        \cup {[kind |-> "result", text |-> t, msg |-> ""] : t \in NumberTexts}

\* client.Call(&result, "eth_getBlockByNumber", "latest", false): the reply
\* is decoded into result; on any error result is left as it was.
Call(result, reply) ==
    IF reply.kind = "error"
    THEN [result |-> result, err |-> NewError("Call", <<>>, reply.msg)]
    ELSE IF reply.kind = "null"
    THEN [result |-> result, err |-> NoError]
    ELSE IF DecodeBigOk(reply.text)
    THEN [result |-> [Number |-> DecodeBig(reply.text)], err |-> NoError]
    ELSE [result |-> result, err |-> NewError("Call", reply.text, "cannot unmarshal hex number")]

(***************************************************************************)
(* src/main.go: the GET /heights handler                                   *)
(***************************************************************************)
Abs(x) == IF x < 0 THEN -x ELSE x

\* Faulty variant of calculateDifference: the Abs is missing.
calculateDifferenceSigned(l1, l2) == l1.Number - l2.Number

calculateDifference(l1, l2) == Abs(l1.Number - l2.Number)

\* Faulty variant of statusCodeForDifference: the boundary counts as outside.
statusCodeForDifferenceExclusive(threshold, difference) ==
    IF threshold <= difference THEN 500 ELSE 200

\* bigThresh.Cmp(difference) == -1 is threshold < difference.
statusCodeForDifference(threshold, difference) ==
    IF threshold < difference THEN 500 ELSE 200

\* Faulty variant of generateResponse: the two endpoint entries are swapped.
generateResponseSwapped(h, l1, l2, difference) ==
    [difference |-> String(difference),
     threshold |-> String(h.threshold),
     endpoints |-> <<[url |-> Endpoint(h.client2), number |-> l2.Number],
                     [url |-> Endpoint(h.client1), number |-> l1.Number]>>]

\* hc.generateResponse: the gin.H of a comparison.
generateResponse(h, l1, l2, difference) ==
    [difference |-> String(difference),
     threshold |-> String(h.threshold),
     endpoints |-> <<[url |-> Endpoint(h.client1), number |-> l1.Number],
                     [url |-> Endpoint(h.client2), number |-> l2.Number]>>]

\* json.Marshal of a gin.H: a hexutil.Big is written as its hex text.
Marshal(obj) ==
    IF "endpoints" \in DOMAIN obj
    THEN [obj EXCEPT !.endpoints =
            [i \in DOMAIN obj.endpoints |->
                [obj.endpoints[i] EXCEPT !.number = EncodeBig(@)]]]
    ELSE obj

\* c.JSON(code, obj)
JSON(code, obj) == [status |-> code, body |-> <<Marshal(obj)>>, errors |-> NoError]

\* c.AbortWithError(code, err): the status is written, err is appended to
\* c.Errors, nothing is written to the body.
AbortWithError(code, err) == [status |-> code, body |-> <<>>, errors |-> err]

\* The locals of Index.
Locals == [latest1 |-> latest1, latest2 |-> latest2, err1 |-> err1, err2 |-> err2]

\* var latest1, latest2 block, and no error yet.
ZeroLocals ==
    [latest1 |-> [Number |-> 0], latest2 |-> [Number |-> 0],
     err1 |-> NoError, err2 |-> NoError]

\* The statement err1 := hc.client1.Call(&latest1, ...) on the locals, the
\* node answering with reply.
Fetch1(loc, reply) ==
    LET c == Call(loc.latest1, reply) IN
    [loc EXCEPT !.latest1 = c.result, !.err1 = c.err]

\* Faulty variant of Fetch2: both calls assign the one error variable.
Fetch2SharedErr(loc, reply) ==
    LET c == Call(loc.latest2, reply) IN
    [loc EXCEPT !.latest2 = c.result, !.err1 = c.err]

\* The statement err2 := hc.client2.Call(&latest2, ...) on the locals.
Fetch2(loc, reply) ==
    LET c == Call(loc.latest2, reply) IN
    [loc EXCEPT !.latest2 = c.result, !.err2 = c.err]

\* What Index writes once both calls are back: the combined error aborts
\* with 502, else the comparison is written with the status of the difference.
Answer(h, loc) ==
    LET merr == Combine(<<loc.err1, loc.err2>>) IN
    IF merr # NoError
    THEN AbortWithError(502, merr)
    ELSE LET difference == calculateDifference(loc.latest1, loc.latest2)
             r == generateResponse(h, loc.latest1, loc.latest2, difference)
         IN  JSON(statusCodeForDifference(h.threshold, difference), r)

\* Faulty variant of IndexBegin: the blocks of the previous request are kept.
IndexBeginStale ==
    /\ pc = "serving"
    /\ ipc \in {"idle", "done"}
    /\ served < MaxServed
    /\ ipc' = "call1"
    /\ err1' = NoError /\ err2' = NoError
    /\ reply1' = Nil /\ reply2' = Nil
    /\ resp' = Nil
    /\ calls1' = 0 /\ calls2' = 0
    /\ UNCHANGED <<pc, args, flagT, insecure, tlsSkip, hc, startErr, dialLog,
                   runCalled, served, latest1, latest2>>

\* A request arrives: gin calls hc.Index with a fresh context;
\* var latest1, latest2 block.
IndexBegin ==
    /\ pc = "serving"
    /\ ipc \in {"idle", "done"}
    /\ served < MaxServed
    /\ ipc' = "call1"
    /\ latest1' = [Number |-> 0] /\ latest2' = [Number |-> 0]
    /\ err1' = NoError /\ err2' = NoError
    /\ reply1' = Nil /\ reply2' = Nil
    /\ resp' = Nil
    /\ calls1' = 0 /\ calls2' = 0
    /\ UNCHANGED <<pc, args, flagT, insecure, tlsSkip, hc, startErr, dialLog,
                   runCalled, served>>

\* Faulty variant of IndexCall1: a failed call is tried once more.
IndexCall1Retry ==
    /\ ipc = "call1"
    /\ \E r \in Replies :
         LET c == Call(latest1, r) IN
         IF c.err # NoError
         THEN \E again \in Replies :
                LET c2 == Call(latest1, again) IN
                /\ reply1' = again
                /\ latest1' = c2.result
                /\ err1' = c2.err
                /\ calls1' = calls1 + 2
         ELSE /\ reply1' = r
              /\ latest1' = c.result
              /\ err1' = c.err
              /\ calls1' = calls1 + 1
    /\ ipc' = "call2"
    /\ UNCHANGED <<pc, args, flagT, insecure, tlsSkip, hc, startErr, dialLog,
                   runCalled, served, latest2, err2, reply2, resp, calls2>>

\* err1 := hc.client1.Call(&latest1, ...)
IndexCall1 ==
    /\ ipc = "call1"
    /\ \E r \in Replies :
         LET loc == Fetch1(Locals, r) IN
         /\ reply1' = r
         /\ latest1' = loc.latest1 /\ err1' = loc.err1
         /\ latest2' = loc.latest2 /\ err2' = loc.err2
    /\ calls1' = calls1 + 1
    /\ ipc' = "call2"
    /\ UNCHANGED <<pc, args, flagT, insecure, tlsSkip, hc, startErr, dialLog,
                   runCalled, served, reply2, resp, calls2>>

\* err2 := hc.client2.Call(&latest2, ...)
IndexCall2 ==
    /\ ipc = "call2"
    /\ \E r \in Replies :
         LET loc == Fetch2(Locals, r) IN
         /\ reply2' = r
         /\ latest1' = loc.latest1 /\ err1' = loc.err1
         /\ latest2' = loc.latest2 /\ err2' = loc.err2
    /\ calls2' = calls2 + 1
    /\ ipc' = "respond"
    /\ UNCHANGED <<pc, args, flagT, insecure, tlsSkip, hc, startErr, dialLog,
                   runCalled, served, reply1, resp, calls1>>

\* The rest of Index: the combined error aborts with 502, else the
\* comparison is written with the status of the difference.
IndexRespond ==
    /\ ipc = "respond"
    /\ resp' = Answer(hc, Locals)
    /\ ipc' = "done"
    /\ served' = served + 1
    /\ UNCHANGED <<pc, args, flagT, insecure, tlsSkip, hc, startErr, dialLog,
                   runCalled, latest1, latest2, err1, err2, reply1, reply2,
                   calls1, calls2>>

Next == run \/ IndexBegin \/ IndexCall1 \/ IndexCall2 \/ IndexRespond

Spec == Init /\ [][Next]_vars

(***************************************************************************)
(* Properties of src/main.go (checked under Spec)                          *)
(***************************************************************************)
\* Both fetches of the finished request succeeded.
Compared == ipc = "done" /\ err1 = NoError /\ err2 = NoError

\* A fetch of the finished request failed.
FetchFailed == ipc = "done" /\ (err1 # NoError \/ err2 # NoError)

\* The difference the response reports, read back from its decimal text.
RespDifference == ValueOf(DecDigits, 10, resp.body[1].difference)

\* C1: after a request whose two fetches succeeded, the status is 200
\* exactly when the reported difference is at most the threshold and 500
\* exactly when it is greater; the boundary difference = threshold is 200.
C1_InclusiveThreshold ==
    Compared =>
        /\ AllDigits(DecDigits, resp.body[1].difference)
        /\ resp.status = 200 <=> RespDifference <= hc.threshold
        /\ resp.status = 500 <=> RespDifference > hc.threshold

C1_Witness ==
    /\ Compared
    /\ hc.threshold >= 1
    /\ RespDifference = hc.threshold
    /\ resp.status = 200

\* C2: when the fetch of client 1 or of client 2 returned an error, the
\* request ends with status 502 and writes no comparison data, whatever the
\* other client returned.
C2_FetchErrorGives502 ==
    FetchFailed =>
        /\ resp.status = 502
        /\ \A i \in 1..Len(resp.body) :
             DOMAIN resp.body[i] \cap {"difference", "threshold", "endpoints"} = {}

C2_Witness ==
    /\ FetchFailed
    /\ err1 = NoError /\ reply1.kind = "result" /\ latest1.Number > 0
    /\ err2 # NoError
    /\ resp.status = 502

\* What a client's reply carries as height: the number text of the result,
\* or the zero block's 0x0 when the result had no number.
Reported(reply) ==
    IF reply.kind = "result" THEN reply.text ELSE <<"0", "x", "0">>

\* C5: when both fetches succeeded, the body has the same three fields for
\* status 200 and 500: the decimal text of |height1 - height2|, the decimal
\* text of the threshold, and two endpoint entries, client 1 first, each with
\* the client's URL and the height its node reported.
C5_BodyShape ==
    Compared =>
        /\ resp.status \in {200, 500}
        /\ Len(resp.body) = 1
        /\ DOMAIN resp.body[1] = {"difference", "threshold", "endpoints"}
        /\ LET b == resp.body[1]
               n1 == DecodeBig(Reported(reply1))
               n2 == DecodeBig(Reported(reply2))
           IN  /\ AllDigits(DecDigits, b.difference)
               /\ Len(b.difference) > 1 => b.difference[1] # "0"
               /\ ValueOf(DecDigits, 10, b.difference)
                    = (IF n1 >= n2 THEN n1 - n2 ELSE n2 - n1)
               /\ AllDigits(DecDigits, b.threshold)
               /\ Len(b.threshold) > 1 => b.threshold[1] # "0"
               /\ ValueOf(DecDigits, 10, b.threshold) = flagT
               /\ Len(b.endpoints) = 2
               /\ b.endpoints[1] = [url |-> args[1], number |-> Reported(reply1)]
               /\ b.endpoints[2] = [url |-> args[2], number |-> Reported(reply2)]

C5_Witness ==
    /\ Compared
    /\ resp.status = 500
    /\ args[1] # args[2]
    /\ reply1.kind = "result" /\ reply2.kind = "result"
    /\ Len(resp.body[1].difference) = 2

\* C7: the difference of two block heights does not depend on their order
\* and is the non-negative |a - b|; the response reports that value.
C7_DifferenceSymmetric ==
    Compared =>
        LET a == latest1.Number
            b == latest2.Number
            d == IF a >= b THEN a - b ELSE b - a
        IN  /\ calculateDifference(latest1, latest2) = calculateDifference(latest2, latest1)
            /\ calculateDifference(latest1, latest2) = d
            /\ calculateDifference(latest1, latest2) >= 0
            /\ resp.body[1].difference = String(d)

C7_Witness ==
    /\ Compared
    /\ latest1.Number < latest2.Number
    /\ latest1.Number > 0
    /\ RespDifference = latest2.Number - latest1.Number

\* C8: once the controller is built, Endpoint() of client 1 and of client 2
\* is the address given on the command line, also for a localhost address
\* that was dialed as http://localhost..., and stays so across requests.
C8_EndpointIsConfiguredAddress ==
    hc # Nil =>
        /\ Endpoint(hc.client1) = args[1]
        /\ Endpoint(hc.client2) = args[2]

C8_Witness ==
    /\ hc # Nil
    /\ served >= 2
    /\ Endpoint(hc.client1) = AddrLocalhost
    /\ hc.client1.Client.target = AddrHTTPLocalhost
    /\ dialLog[1] = AddrHTTPLocalhost

\* Construction failed: a dial that was made came back with an error.
ConstructionFailed ==
    \E i \in 1..Len(dialLog) : rpcDial(dialLog[i]).err # NoError

\* C9: when the construction of the controller failed, createRouter gives no
\* router and the error, run returns that error, and r.Run() was not called:
\* nothing is served.
C9_NoServingOnBadConfig ==
    (pc # "start" /\ ConstructionFailed) =>
        /\ createRouter(args[1], args[2], flagT).router = Nil
        /\ createRouter(args[1], args[2], flagT).err # NoError
        /\ startErr = createRouter(args[1], args[2], flagT).err
        /\ ~runCalled
        /\ pc = "exited"
        /\ hc = Nil
        /\ ipc = "idle" /\ served = 0

C9_Witness ==
    /\ pc = "exited"
    /\ ConstructionFailed
    /\ Len(startErr) = 2
    /\ ~runCalled

\* What a request answers when it sees nothing but the controller and the
\* two replies of its own fetches.
Outcome(h, r1, r2) ==
    LET c1 == Call([Number |-> 0], r1)
        c2 == Call([Number |-> 0], r2)
        d == Abs(c1.result.Number - c2.result.Number)
    IN  IF c1.err # NoError \/ c2.err # NoError
        THEN [status |-> 502, body |-> <<>>, errors |-> c1.err \o c2.err]
        ELSE [status |-> IF d <= h.threshold THEN 200 ELSE 500,
              body |-> <<[difference |-> String(d),
                          threshold |-> String(h.threshold),
                          endpoints |-> <<[url |-> h.client1.endpoint,
                                           number |-> EncodeBig(c1.result.Number)],
                                          [url |-> h.client2.endpoint,
                                           number |-> EncodeBig(c2.result.Number)]>>]>>,
              errors |-> NoError]

\* C10: requests leave the controller (threshold and both clients) as it
\* was built, and what a request answers is determined by its own two
\* fetch replies, whatever the earlier requests were.
C10_Stateless ==
    /\ [](ipc = "done" => resp = Outcome(hc, reply1, reply2))
    /\ [][hc # Nil => hc' = hc]_vars

C10_Witness ==
    /\ ipc = "done"
    /\ served >= 2
    /\ reply1.kind = "null"
    /\ reply2.kind = "result"
    /\ resp.status = 200
    /\ hc = newHeightsController(args[1], args[2], flagT).hc

\* C11: a request calls each client exactly once and never again: client 2
\* is called once also when the call to client 1 failed, and client 1 is not
\* called a second time when the call to client 2 failed.
C11_OneCallEach ==
    /\ calls1 = (IF ipc \in {"call2", "respond", "done"} THEN 1 ELSE 0)
    /\ calls2 = (IF ipc \in {"respond", "done"} THEN 1 ELSE 0)
    /\ ipc = "done" => calls1 = 1 /\ calls2 = 1

C11_Witness ==
    /\ ipc = "done"
    /\ served >= 2
    /\ err1 # NoError /\ calls2 = 1
    /\ err2 # NoError /\ calls1 = 1
    /\ resp.status = 502

\* C12: the outcome of a request does not depend on the order of its two
\* fetches: for the replies the two nodes gave, calling client 1 then client 2
\* and calling client 2 then client 1 leave the same blocks and errors, and
\* the status and payload written are those of either order.
C12_OrderIndependent ==
    ipc = "done" =>
        LET first1 == Fetch2(Fetch1(ZeroLocals, reply1), reply2)
            first2 == Fetch1(Fetch2(ZeroLocals, reply2), reply1)
        IN  /\ first1 = first2
            /\ Locals = first2
            /\ resp = Answer(hc, first2)
            /\ Answer(hc, first1) = Answer(hc, first2)

C12_Witness ==
    /\ ipc = "done"
    /\ err1 # NoError
    /\ err2 = NoError /\ reply2.kind = "result" /\ latest2.Number > 0
    /\ resp.status = 502
    /\ resp.errors = err1

\* The address starts with the nine characters of localhost.
StartsWithLocalhost(a) ==
    /\ Len(a) >= 9
    /\ a[1] = "l" /\ a[2] = "o" /\ a[3] = "c" /\ a[4] = "a" /\ a[5] = "l"
    /\ a[6] = "h" /\ a[7] = "o" /\ a[8] = "s" /\ a[9] = "t"

\* d is http:// followed by the unchanged address a.
IsHTTPOf(d, a) ==
    /\ Len(d) = Len(a) + 7
    /\ d[1] = "h" /\ d[2] = "t" /\ d[3] = "t" /\ d[4] = "p"
    /\ d[5] = ":" /\ d[6] = "/" /\ d[7] = "/"
    /\ \A k \in 1..Len(a) : d[k + 7] = a[k]

\* C13: the address handed to rpc.Dial is http:// followed by the unchanged
\* endpoint when the endpoint starts with localhost, and the endpoint itself,
\* unchanged, in every other case.
C13_NormalizeLocalhost ==
    \A i \in 1..Len(dialLog) :
        IF StartsWithLocalhost(args[i])
        THEN IsHTTPOf(dialLog[i], args[i])
        ELSE dialLog[i] = args[i]

C13_Witness ==
    /\ Len(dialLog) = 2
    /\ args[1] = AddrBareLocalhost
    /\ Len(dialLog[1]) = 16 /\ IsHTTPOf(dialLog[1], args[1])
    /\ args[2] = AddrHTTPLocalhost
    /\ dialLog[2] = AddrHTTPLocalhost
    /\ pc = "serving"

\* C6 as stated: on an upstream failure the 502 response has a body whose
\* "error" field is the combined text of every fetch error of the request.
C6_ErrorBody ==
    FetchFailed =>
        /\ resp.status = 502
        /\ Len(resp.body) = 1
        /\ DOMAIN resp.body[1] = {"error"}
        /\ resp.body[1].error = ErrorText(err1 \o err2)

(***************************************************************************)
(* src/unnamed/part_003: the revision whose threshold is a text            *)
(***************************************************************************)
Ninja == <<"n", "i", "n", "j", "a">>
MaxUint32Text == <<"4", "2", "9", "4", "9", "6", "7", "2", "9", "5">>
TwoPow32Text == <<"4", "2", "9", "4", "9", "6", "7", "2", "9", "6">>

TextAlphabet == {"0", "2", "-", "n"}

ThresholdTexts ==
    UNION {[1..n -> TextAlphabet] : n \in 0..MaxTextLen}
        \cup {Ninja, MaxUint32Text, TwoPow32Text}

RECURSIVE TrimZeros(_)
\* The decimal digits of a value without leading zeros.
TrimZeros(s) == IF Len(s) > 1 /\ s[1] = "0" THEN TrimZeros(Tail(s)) ELSE s

RECURSIVE LexCmp(_, _)
LexCmp(a, b) ==
    IF Len(a) = 0 THEN 0
    ELSE IF DigitVal(DecDigits, a[1]) < DigitVal(DecDigits, b[1]) THEN -1
    ELSE IF DigitVal(DecDigits, a[1]) > DigitVal(DecDigits, b[1]) THEN 1
    ELSE LexCmp(Tail(a), Tail(b))

\* x.Cmp(y) of two non-negative big integers, each held as its decimal
\* digits without leading zeros: -1, 0 or 1.
Cmp(x, y) ==
    IF Len(x) < Len(y) THEN -1
    ELSE IF Len(x) > Len(y) THEN 1
    ELSE LexCmp(x, y)

\* strconv.ParseUint(s, 10, 32): s must be one or more decimal digits (no
\* sign) and its value must fit 32 bits.  The value is held as its digits.
ParseUint(s) ==
    IF Len(s) = 0 \/ ~AllDigits(DecDigits, s)
    THEN [value |-> <<"0">>,
          err |-> NewError("strconv.ParseUint", s, "invalid syntax")]
    ELSE IF Cmp(TrimZeros(s), MaxUint32Text) = 1
    THEN [value |-> MaxUint32Text,
          err |-> NewError("strconv.ParseUint", s, "value out of range")]
    ELSE [value |-> TrimZeros(s), err |-> NoError]

\* Faulty variant of newHeightsControllerStr: returns at the first failure.
newHeightsControllerStrEarly(endpoint1, endpoint2, thresholdStr) ==
    LET p == ParseUint(thresholdStr)
        d1 == rpcDial(normalizeLocalhost(endpoint1))
        d2 == rpcDial(normalizeLocalhost(endpoint2))
    IN  IF p.err # NoError
        THEN [hc |-> Nil, err |-> p.err, dials |-> <<>>]
        ELSE IF d1.err # NoError
        THEN [hc |-> Nil, err |-> d1.err, dials |-> <<normalizeLocalhost(endpoint1)>>]
        ELSE [hc |-> IF d2.err # NoError THEN Nil
                     ELSE [threshold |-> p.value,
                           client1 |-> [Client |-> d1.client, endpoint |-> endpoint1],
                           client2 |-> [Client |-> d2.client, endpoint |-> endpoint2]],
              err |-> d2.err,
              dials |-> <<normalizeLocalhost(endpoint1), normalizeLocalhost(endpoint2)>>]

\* newHeightsController(endpoint1, endpoint2, thresholdStr string); the
\* threshold becomes big.NewInt(int64(threshold)).
newHeightsControllerStr(endpoint1, endpoint2, thresholdStr) ==
    LET p == ParseUint(thresholdStr)
        d1 == rpcDial(normalizeLocalhost(endpoint1))
        d2 == rpcDial(normalizeLocalhost(endpoint2))
        merr == Combine(<<p.err, d1.err, d2.err>>)
    IN  [hc |-> IF merr # NoError THEN Nil
                ELSE [threshold |-> p.value,
                      client1 |-> [Client |-> d1.client, endpoint |-> endpoint1],
                      client2 |-> [Client |-> d2.client, endpoint |-> endpoint2]],
         err |-> merr,
         dials |-> <<normalizeLocalhost(endpoint1), normalizeLocalhost(endpoint2)>>]

createRouterStr(p1, p2, threshold) ==
    LET c == newHeightsControllerStr(p1, p2, threshold) IN
    IF c.err # NoError
    THEN [router |-> Nil, err |-> c.err, dials |-> c.dials]
    ELSE [router |-> [heights |-> c.hc], err |-> NoError, dials |-> c.dials]

\* threshold.Cmp(difference) == -1; the difference is a small non-negative
\* integer here and is compared through its decimal digits.
statusCodeForDifferenceStr(threshold, difference) ==
    IF Cmp(threshold, String(difference)) = -1 THEN 500 ELSE 200

InitStr ==
    /\ pc = "start"
    /\ args \in [1..2 -> Addrs]
                  \cup {<<a, b, t>> : a \in Addrs, b \in Addrs, t \in ThresholdTexts}
    /\ flagT = 0
    /\ insecure \in BOOLEAN
    /\ tlsSkip = FALSE
    /\ hc = Nil
    /\ startErr = NoError
    /\ dialLog = <<>>
    /\ runCalled = FALSE
    /\ Idle

\* main of part_003; args is os.Args without the program name, insecure is
\* what insecureSkipVerify() returns, log.Panic ends the process.
mainStr ==
    /\ pc = "start"
    /\ IF Len(args) # 3
       THEN /\ pc' = "panicked"
            /\ startErr' = NewError("main", <<>>, "Must pass two Ethereum JSON-RPC Endpoints")
            /\ UNCHANGED <<tlsSkip, hc, dialLog, runCalled>>
       ELSE LET r == createRouterStr(args[1], args[2], args[3]) IN
            /\ tlsSkip' = insecure
            /\ dialLog' = dialLog \o r.dials
            /\ IF r.err # NoError
               THEN /\ pc' = "panicked"
                    /\ startErr' = r.err
                    /\ UNCHANGED <<hc, runCalled>>
               ELSE /\ hc' = r.router.heights
                    /\ runCalled' = TRUE
                    /\ \E listenOk \in BOOLEAN :
                         IF listenOk
                         THEN pc' = "serving" /\ startErr' = NoError
                         ELSE /\ pc' = "panicked"
                              /\ startErr' = NewError("r.Run", <<>>, "listen failed")
    /\ UNCHANGED <<args, flagT, insecure, ipc, latest1, latest2, err1, err2,
                   reply1, reply2, resp, served, calls1, calls2>>

\* The rest of Index in part_003: 502 with the combined error text as the
\* body's "error", else the comparison.
IndexRespondStr ==
    /\ ipc = "respond"
    /\ LET merr == Combine(<<err1, err2>>) IN
       IF merr # NoError
       THEN resp' = JSON(502, [error |-> ErrorText(merr)])
       ELSE LET difference == Abs(latest1.Number - latest2.Number)
                r == [difference |-> String(difference),
                      threshold |-> hc.threshold,
                      endpoints |-> <<[url |-> Endpoint(hc.client1), number |-> latest1.Number],
                                      [url |-> Endpoint(hc.client2), number |-> latest2.Number]>>]
            IN  resp' = JSON(statusCodeForDifferenceStr(hc.threshold, difference), r)
    /\ ipc' = "done"
    /\ served' = served + 1
    /\ UNCHANGED <<pc, args, flagT, insecure, tlsSkip, hc, startErr, dialLog,
                   runCalled, latest1, latest2, err1, err2, reply1, reply2,
                   calls1, calls2>>

NextStr == mainStr \/ IndexBegin \/ IndexCall1 \/ IndexCall2 \/ IndexRespondStr

SpecStr == InitStr /\ [][NextStr]_vars

(***************************************************************************)
(* Properties of src/unnamed/part_003 (checked under SpecStr)              *)
(***************************************************************************)
\* The endpoint is a valid connection target: dialing it gives a client.
ValidTarget(endpoint) == rpcDial(normalizeLocalhost(endpoint)).err = NoError

\* The text is a non-negative base-10 integer: one or more decimal digits.
IsDecimal(text) == Len(text) >= 1 /\ AllDigits(DecDigits, text)

Constructed == pc # "start" /\ Len(args) = 3

\* C3 as stated: construction succeeds if and only if both endpoints are
\* valid connection targets and the threshold text is a non-negative
\* base-10 integer, of any size.
C3_ConstructionIff ==
    Constructed =>
        (hc # Nil <=> /\ ValidTarget(args[1])
                      /\ ValidTarget(args[2])
                      /\ IsDecimal(args[3]))

\* What the code does instead: the integer must also fit 32 bits.
ConstructionIff32 ==
    Constructed =>
        (hc # Nil <=> /\ ValidTarget(args[1])
                      /\ ValidTarget(args[2])
                      /\ IsDecimal(args[3])
                      /\ Cmp(TrimZeros(args[3]), MaxUint32Text) # 1)

Contains(err, e) == \E i \in 1..Len(err) : <<err[i]>> = e

\* C4: construction makes the threshold parse and both dials whatever
\* fails; the error it returns holds the error of each of the three that
\* failed, and when any failed there is no controller and nothing is run.
C4_AllFailuresReported ==
    Constructed =>
        LET p == ParseUint(args[3]).err
            d1 == rpcDial(normalizeLocalhost(args[1])).err
            d2 == rpcDial(normalizeLocalhost(args[2])).err
        IN  /\ dialLog = <<normalizeLocalhost(args[1]), normalizeLocalhost(args[2])>>
            /\ p # NoError => Contains(startErr, p)
            /\ d1 # NoError => Contains(startErr, d1)
            /\ d2 # NoError => Contains(startErr, d2)
            /\ (p # NoError \/ d1 # NoError \/ d2 # NoError) =>
                  /\ hc = Nil
                  /\ ~runCalled
                  /\ pc = "panicked"
                  /\ Len(startErr) = Len(p) + Len(d1) + Len(d2)

C4_Witness ==
    /\ Constructed
    /\ Len(startErr) = 3
    /\ Len(dialLog) = 2
    /\ hc = Nil

====
